---- MODULE Spec2Model ----
(***************************************************************************)
(* Model of the OSV range computation of the rustsec crate                 *)
(* (rustsec/src/advisory/version_ranges.rs) and of the OSV export driver   *)
(* of rustsec-admin (admin/src/osv_export.rs).                             *)
(***************************************************************************)
EXTENDS Integers, Sequences, FiniteSets, TLC

(***************************************************************************)
(* Bounds of the model.                                                    *)
(***************************************************************************)
\* highest patch number of a version that bounds an UnaffectedRange
MaxPatch == 1
\* longest list handed to unaffected_to_osv_ranges
MaxRanges == 3
\* highest patch number of a comparator of a VersionReq
MaxCompPatch == 0
\* most requirements (unaffected and patched together) of an advisory
MaxReqs == 2
\* highest major, minor number of a version handed to increment
MaxField == 1
\* most package directories of the collection, most advisories of a package
MaxPkgs == 2
MaxAdvs == 2

(***************************************************************************)
(* semver::Version.  A pre-release is a sequence of identifiers, an        *)
(* identifier is numeric (alpha = FALSE, n its value) or alphanumeric      *)
(* (alpha = TRUE, n its rank in ASCII order).  Build metadata is a         *)
(* sequence of characters, here tokens.                                    *)
(***************************************************************************)
Num(n) == [alpha |-> FALSE, n |-> n]

Alpha(n) == [alpha |-> TRUE, n |-> n]

Version(major, minor, patch, pre, build) ==
    [major |-> major, minor |-> minor, patch |-> patch, pre |-> pre, build |-> build]

Release(major, minor, patch) == Version(major, minor, patch, <<>>, <<>>)

\* Ordering of two identifiers: numeric ones numerically and below
\* alphanumeric ones, alphanumeric ones in ASCII order.
IdentCmp(x, y) ==
    IF x.alpha = y.alpha
    THEN (IF x.n < y.n THEN -1 ELSE IF x.n > y.n THEN 1 ELSE 0)
    ELSE (IF y.alpha THEN -1 ELSE 1)

RECURSIVE IdentsCmp(_, _)
\* Identifier sequences compare lexicographically, a proper prefix first.
IdentsCmp(p, q) ==
    IF p = <<>> THEN (IF q = <<>> THEN 0 ELSE -1)
    ELSE IF q = <<>> THEN 1
    ELSE IF IdentCmp(Head(p), Head(q)) # 0 THEN IdentCmp(Head(p), Head(q))
    ELSE IdentsCmp(Tail(p), Tail(q))

\* semver::Prerelease: the empty pre-release (a release) is the greatest.
PrereleaseCmp(p, q) ==
    IF p = <<>> THEN (IF q = <<>> THEN 0 ELSE 1)
    ELSE IF q = <<>> THEN -1
    ELSE IdentsCmp(p, q)

NatCmp(a, b) == IF a < b THEN -1 ELSE IF a > b THEN 1 ELSE 0

\* semver::BuildMetadata: a total order, the empty metadata first.
BuildCmp(a, b) ==
    IF a = b THEN 0
    ELSE IF a = <<>> THEN -1
    ELSE IF b = <<>> THEN 1
    ELSE IF Len(a) # Len(b) THEN NatCmp(Len(a), Len(b))
    ELSE 0

\* Ord of semver::Version: major, minor, patch, pre, then build.
VersionCmp(a, b) ==
    IF a.major # b.major THEN NatCmp(a.major, b.major)
    ELSE IF a.minor # b.minor THEN NatCmp(a.minor, b.minor)
    ELSE IF a.patch # b.patch THEN NatCmp(a.patch, b.patch)
    ELSE IF PrereleaseCmp(a.pre, b.pre) # 0 THEN PrereleaseCmp(a.pre, b.pre)
    ELSE BuildCmp(a.build, b.build)

VersionLt(a, b) == VersionCmp(a, b) < 0

(***************************************************************************)
(* Display and parsing of a version, as sequences of tokens.               *)
(***************************************************************************)
Tok(t, id) == [t |-> t, id |-> id]

Dot == Tok("dot", Num(0))

Dash == Tok("dash", Num(0))

Plus == Tok("plus", Num(0))

RECURSIVE JoinIdents(_)
JoinIdents(p) ==
    IF p = <<>> THEN <<>>
    ELSE IF Len(p) = 1 THEN <<Tok("id", p[1])>>
    ELSE <<Tok("id", p[1]), Dot>> \o JoinIdents(Tail(p))

\* <Version as Display>::to_string
VersionToString(v) ==
    <<Tok("id", Num(v.major)), Dot, Tok("id", Num(v.minor)), Dot, Tok("id", Num(v.patch))>>
    \o (IF v.pre = <<>> THEN <<>> ELSE <<Dash>> \o JoinIdents(v.pre))
    \o (IF v.build = <<>> THEN <<>> ELSE <<Plus>> \o v.build)

\* String::push_str("-0")
PushDashZero(s) == s \o <<Dash, Tok("id", Num(0))>>

\* index of the first "plus" token of s, or Len(s) + 1
PlusAt(s) ==
    IF \E j \in 1..Len(s) : s[j] = Plus
    THEN CHOOSE j \in 1..Len(s) : s[j] = Plus /\ \A h \in 1..(j - 1) : s[h] # Plus
    ELSE Len(s) + 1

\* the identifiers among the tokens of s
IdentsOf(s) ==
    LET idx == {j \in 1..Len(s) : s[j].t = "id"}
        RECURSIVE Take(_)
        Take(j) == IF j > Len(s) THEN <<>>
                   ELSE IF j \in idx THEN <<s[j].id>> \o Take(j + 1)
                   ELSE Take(j + 1)
    IN Take(1)

\* Version::parse of "major.minor.patch[-pre][+build]"
VersionParse(s) ==
    LET p == PlusAt(s)
        hasPre == Len(s) > 5 /\ p > 6 /\ s[6] = Dash
    IN Version(s[1].id.n, s[3].id.n, s[5].id.n,
               IF hasPre THEN IdentsOf(SubSeq(s, 7, p - 1)) ELSE <<>>,
               IF p <= Len(s) THEN SubSeq(s, p + 1, Len(s)) ELSE <<>>)

(***************************************************************************)
(* fn increment.  The result is a sequence: <<v>> for a returned version,  *)
(* <<>> when the call ends in todo!().                                     *)
(***************************************************************************)
\* a faulty increment that keeps the build metadata (line 290 left out)
incrementKeepingBuild(v) ==
    IF v.pre = <<>>
    THEN LET v2 == [v EXCEPT !.patch = @ + 1]
             serialized == PushDashZero(VersionToString(v2))
         IN <<VersionParse(serialized)>>
    ELSE <<>>

\* a faulty increment whose test of v.pre is inverted
incrementInverted(v) ==
    IF v.pre # <<>>
    THEN LET v1 == [v EXCEPT !.build = <<>>]
             v2 == [v1 EXCEPT !.patch = @ + 1]
             serialized == PushDashZero(VersionToString(v2))
         IN <<VersionParse(serialized)>>
    ELSE <<>>

increment(v) ==
    IF v.pre = <<>>
    THEN LET v1 == [v EXCEPT !.build = <<>>]
             v2 == [v1 EXCEPT !.patch = @ + 1]
             serialized == PushDashZero(VersionToString(v2))
         IN <<VersionParse(serialized)>>
    ELSE <<>>

(***************************************************************************)
(* enum Bound and struct UnaffectedRange.  Bound::version() is the field   *)
(* ver: <<>> for None, <<v>> for Some(v).                                  *)
(***************************************************************************)
Unbounded == [kind |-> "Unbounded", ver |-> <<>>]

Exclusive(v) == [kind |-> "Exclusive", ver |-> <<v>>]

Inclusive(v) == [kind |-> "Inclusive", ver |-> <<v>>]

UnaffectedRange(start, end) == [start |-> start, end |-> end]

\* impl Default for UnaffectedRange
DefaultRange == UnaffectedRange(Unbounded, Unbounded)

\* UnaffectedRange::is_valid
is_valid(r) ==
    IF r.start = Unbounded \/ r.end = Unbounded THEN TRUE
    ELSE IF VersionLt(r.start.ver[1], r.end.ver[1]) THEN TRUE
    ELSE IF r.start.kind = "Exclusive" /\ r.end.kind = "Inclusive" THEN r.start.ver[1] = r.end.ver[1]
    ELSE IF r.start.kind = "Inclusive" /\ r.end.kind = "Exclusive" THEN r.start.ver[1] = r.end.ver[1]
    ELSE IF r.start.kind = "Inclusive" /\ r.end.kind = "Inclusive" THEN r.start.ver[1] = r.end.ver[1]
    ELSE FALSE

\* a faulty less_or_equal for which equal positions never reach each other
less_or_equalStrict(a, b) ==
    IF a.ver # <<>> /\ b.ver # <<>>
    THEN IF VersionLt(b.ver[1], a.ver[1]) THEN FALSE
         ELSE IF b.ver[1] = a.ver[1] THEN FALSE
         ELSE TRUE
    ELSE TRUE

\* fn less_or_equal inside UnaffectedRange::overlaps
less_or_equal(a, b) ==
    IF a.ver # <<>> /\ b.ver # <<>>
    THEN IF VersionLt(b.ver[1], a.ver[1]) THEN FALSE
         ELSE IF b.ver[1] = a.ver[1]
              THEN a.kind = "Inclusive" /\ b.kind = "Inclusive"
              ELSE TRUE
    ELSE TRUE

\* the value of UnaffectedRange::overlaps once both assertions have passed
overlaps(self, other) ==
    less_or_equal(self.start, other.end) /\ less_or_equal(other.start, self.end)

(***************************************************************************)
(* struct OsvRange: start and end are Option<Version>, <<>> for None and   *)
(* <<v>> for Some(v).                                                      *)
(***************************************************************************)
None == <<>>

Some(x) == <<x>>

OsvRange(start, end) == [start |-> start, end |-> end]

(***************************************************************************)
(* State.  pc is the position of the running function, err the panic or   *)
(* error that ended it ("none" while it runs or after it returned).        *)
(***************************************************************************)
VARIABLES
    pc, err,
    \* ranges_for_advisory / unaffected_to_osv_ranges
    unaffected,     \* the caller's Vec<UnaffectedRange>, borrowed by the callee
    prerelease,     \* some requirement consumed so far carries a pre-release
    sorted,         \* the callee's sorted copy (let mut unaffected = ...to_vec())
    result,         \* Vec<OsvRange> under construction
    w,              \* index of the next window of windows(2)
    \* From<VersionReq> for UnaffectedRange
    input,          \* input.comparators
    k,              \* number of comparators consumed
    range,          \* the UnaffectedRange under construction (`result`)
    \* UnaffectedRange::overlaps
    selfRange, otherRange, overlapsRet,
    \* increment
    incArg, incRet,
    \* OsvExporter::export_all
    layout,         \* the collection: the number of advisory files of each package
    pkg, adv,       \* the package and the advisory file the loops are at
    files,          \* the output directory: "absent", "partial" or "complete" per advisory
    failures,       \* the operations that failed so far, as <<advisory or <<0, 0>>, step>>
    exported        \* the advisories whose loop iteration ran to its end

rangeVars == <<unaffected, prerelease, sorted, result, w>>

fromVars == <<input, k, range>>

overlapsVars == <<selfRange, otherRange, overlapsRet>>

incVars == <<incArg, incRet>>

exportVars == <<layout, pkg, adv, files, failures, exported>>

vars == <<pc, err, rangeVars, fromVars, overlapsVars, incVars, exportVars>>

\* the values of the variables a function does not use
IdleRange == unaffected = <<>> /\ prerelease = FALSE /\ sorted = <<>> /\ result = <<>> /\ w = 0

IdleFrom == input = <<>> /\ k = 0 /\ range = DefaultRange

IdleOverlaps == selfRange = DefaultRange /\ otherRange = DefaultRange /\ overlapsRet = <<>>

IdleInc == incArg = Release(0, 0, 0) /\ incRet = <<>>

IdleExport ==
    /\ layout = <<>> /\ pkg = 0 /\ adv = 0
    /\ files = <<>> /\ failures = {} /\ exported = {}

(***************************************************************************)
(* fn unaffected_to_osv_ranges                                             *)
(***************************************************************************)
Panic(msg) == pc' = "panic" /\ err' = msg

\* a faulty pair of loops that compares neighbours only
OverlapCheckedPairsNeighbours(n) == {<<a, a + 1>> : a \in 1..(n - 1)}

\* lines 207-208: the pairs (a, b) of positions the two loops visit
OverlapCheckedPairs(n) == (1..(n - 1)) \X (2..n)

\* lines 200-211: the panic of the validation, "none" when it passes
ValidationPanic(list) ==
    IF \E j \in 1..Len(list) : ~is_valid(list[j]) THEN "invalid range"
    ELSE IF Len(list) = 0 THEN "empty"
    ELSE IF \E p \in OverlapCheckedPairs(Len(list)) : overlaps(list[p[1]], list[p[2]])
    THEN "overlap"
    ELSE "none"

\* lines 200-211: every range is valid, the list is not empty, no two overlap
Validate ==
    /\ pc = "validate"
    /\ IF ValidationPanic(unaffected) = "none"
       THEN pc' = "sort" /\ err' = err
       ELSE Panic(ValidationPanic(unaffected))
    /\ UNCHANGED <<rangeVars, fromVars, overlapsVars, incVars, exportVars>>

\* lines 217-225: the comparator of sort_unstable_by
CompareStart(a, b) ==
    IF a.start.ver = None THEN "Less"
    ELSE IF b.start.ver = None THEN "Greater"
    ELSE IF a.start.ver[1] = b.start.ver[1] THEN "Panic"
    ELSE IF VersionLt(a.start.ver[1], b.start.ver[1]) THEN "Less"
    ELSE "Greater"

RECURSIVE InsertTail(_, _)
\* insertion of x into the sorted slice s, from its tail; ok = FALSE when the
\* comparator panicked
InsertTail(s, x) ==
    IF s = <<>> THEN [ok |-> TRUE, seq |-> <<x>>]
    ELSE LET last == s[Len(s)]
             c == CompareStart(x, last)
         IN IF c = "Panic" THEN [ok |-> FALSE, seq |-> <<>>]
            ELSE IF c = "Less"
            THEN LET r == InsertTail(SubSeq(s, 1, Len(s) - 1), x)
                 IN [ok |-> r.ok, seq |-> IF r.ok THEN r.seq \o <<last>> ELSE <<>>]
            ELSE [ok |-> TRUE, seq |-> s \o <<x>>]

RECURSIVE SortUnstableBy(_)
\* sort_unstable_by on a short slice: an insertion sort
SortUnstableBy(s) ==
    IF Len(s) <= 1 THEN [ok |-> TRUE, seq |-> s]
    ELSE LET r == SortUnstableBy(SubSeq(s, 1, Len(s) - 1))
         IN IF r.ok THEN InsertTail(r.seq, s[Len(s)]) ELSE r

\* lines 215-226: copy and sort by start
Sort ==
    /\ pc = "sort"
    /\ LET r == SortUnstableBy(unaffected)
       IN IF r.ok
          THEN pc' = "head" /\ err' = err /\ sorted' = r.seq
          ELSE Panic("equal starts") /\ sorted' = sorted
    /\ UNCHANGED <<unaffected, prerelease, result, w, fromVars, overlapsVars, incVars, exportVars>>

\* the outcome of a step that pushes OSV ranges; ok = FALSE when increment
\* ended in todo!()
Pushed(ranges) == [ok |-> TRUE, ranges |-> ranges]

Todo == [ok |-> FALSE, ranges |-> <<>>]

\* lines 236-246: the affected range below the first unaffected range
HeadRange(first) ==
    IF first.start.kind = "Unbounded" THEN Pushed(<<>>)
    ELSE IF first.start.kind = "Exclusive"
    THEN (IF increment(first.start.ver[1]) = <<>> THEN Todo
          ELSE Pushed(<<OsvRange(None, increment(first.start.ver[1]))>>))
    ELSE Pushed(<<OsvRange(None, Some(first.start.ver[1]))>>)

PushHead ==
    /\ pc = "head"
    /\ LET h == HeadRange(sorted[1])
       IN IF h.ok
          THEN pc' = "windows" /\ err' = err /\ result' = result \o h.ranges
          ELSE Panic("increment todo") /\ result' = result
    /\ w' = 1
    /\ UNCHANGED <<unaffected, prerelease, sorted, fromVars, overlapsVars, incVars, exportVars>>

\* lines 250-255: the start of the affected range after r0; <<>> for a panic
WindowStart(r0) ==
    IF r0.end.kind = "Unbounded" THEN <<>>
    ELSE IF r0.end.kind = "Exclusive" THEN increment(r0.end.ver[1])
    ELSE Some(r0.end.ver[1])

\* lines 256-260: the end of the affected range before r1; <<>> for a panic
WindowEnd(r1) ==
    IF r1.start.kind = "Unbounded" THEN <<>>
    ELSE IF r1.start.kind = "Exclusive" THEN Some(r1.start.ver[1])
    ELSE increment(r1.start.ver[1])

\* lines 249-265: one iteration of the loop over windows(2)
PushWindow ==
    /\ pc = "windows"
    /\ w < Len(sorted)
    /\ LET r0 == sorted[w]
           r1 == sorted[w + 1]
       IN IF r0.end.kind = "Unbounded" THEN Panic("unreachable") /\ UNCHANGED <<result, w>>
          ELSE IF WindowStart(r0) = <<>> THEN Panic("increment todo") /\ UNCHANGED <<result, w>>
          ELSE IF r1.start.kind = "Unbounded" THEN Panic("unreachable") /\ UNCHANGED <<result, w>>
          ELSE IF WindowEnd(r1) = <<>> THEN Panic("increment todo") /\ UNCHANGED <<result, w>>
          ELSE /\ result' = Append(result, OsvRange(WindowStart(r0), WindowEnd(r1)))
               /\ w' = w + 1
               /\ UNCHANGED <<pc, err>>
    /\ UNCHANGED <<unaffected, prerelease, sorted, fromVars, overlapsVars, incVars, exportVars>>

\* a faulty tail that converts the end bound as the window loop does
TailRangeAsWindow(last) ==
    IF last.end.kind = "Unbounded" THEN Pushed(<<>>)
    ELSE IF last.end.kind = "Inclusive"
    THEN Pushed(<<OsvRange(Some(last.end.ver[1]), None)>>)
    ELSE (IF increment(last.end.ver[1]) = <<>> THEN Todo
          ELSE Pushed(<<OsvRange(increment(last.end.ver[1]), None)>>))

\* lines 268-278: the affected range above the last unaffected range
TailRange(last) ==
    IF last.end.kind = "Unbounded" THEN Pushed(<<>>)
    ELSE IF last.end.kind = "Exclusive"
    THEN Pushed(<<OsvRange(Some(last.end.ver[1]), None)>>)
    ELSE (IF increment(last.end.ver[1]) = <<>> THEN Todo
          ELSE Pushed(<<OsvRange(increment(last.end.ver[1]), None)>>))

\* lines 268-280: the tail range, then the return of result
PushTail ==
    /\ pc = "windows"
    /\ w >= Len(sorted)
    /\ LET t == TailRange(sorted[Len(sorted)])
       IN IF t.ok
          THEN pc' = "done" /\ err' = err /\ result' = result \o t.ranges
          ELSE Panic("increment todo") /\ result' = result
    /\ UNCHANGED <<unaffected, prerelease, sorted, w, fromVars, overlapsVars, incVars, exportVars>>

UnaffectedToOsvRanges ==
    \/ Validate
    \/ Sort
    \/ PushHead
    \/ PushWindow
    \/ PushTail

\* the value of a call: the panic, or the returned list
Fatal == [panicked |-> TRUE, ranges |-> <<>>]

Emitted(ranges) == [panicked |-> FALSE, ranges |-> ranges]

RECURSIVE WindowRanges(_, _)
\* lines 249-265: the ranges the loop over windows(2) pushes from window i
\* on; ok = FALSE when an iteration panicked
WindowRanges(s, i) ==
    IF i >= Len(s) THEN Pushed(<<>>)
    ELSE IF WindowStart(s[i]) = <<>> \/ WindowEnd(s[i + 1]) = <<>> THEN Todo
    ELSE LET rest == WindowRanges(s, i + 1)
         IN IF rest.ok
            THEN Pushed(<<OsvRange(WindowStart(s[i]), WindowEnd(s[i + 1]))>> \o rest.ranges)
            ELSE Todo

\* lines 199-281: the call as a whole
unaffected_to_osv_ranges(list) ==
    IF ValidationPanic(list) # "none" THEN Fatal
    ELSE LET s == SortUnstableBy(list)
         IN IF ~s.ok THEN Fatal
            ELSE LET h == HeadRange(s.seq[1])
                     m == WindowRanges(s.seq, 1)
                     t == TailRange(s.seq[Len(s.seq)])
                 IN IF h.ok /\ m.ok /\ t.ok
                    THEN Emitted(h.ranges \o m.ranges \o t.ranges)
                    ELSE Fatal

(***************************************************************************)
(* Spec: unaffected_to_osv_ranges called on a list of valid ranges, as     *)
(* ranges_for_advisory hands it over.                                      *)
(***************************************************************************)
BoundsOver(V) == {Unbounded} \cup {Exclusive(v) : v \in V} \cup {Inclusive(v) : v \in V}

RangesOver(V) == {UnaffectedRange(s, e) : s \in BoundsOver(V), e \in BoundsOver(V)}

ValidRangesOver(V) == {r \in RangesOver(V) : is_valid(r)}

ReleaseVersions == {Release(0, 0, p) : p \in 0..MaxPatch}

Init ==
    /\ pc = "validate"
    /\ err = "none"
    /\ \E n \in 0..MaxRanges : unaffected \in [1..n -> ValidRangesOver(ReleaseVersions)]
    /\ prerelease = FALSE
    /\ sorted = <<>>
    /\ result = <<>>
    /\ w = 0
    /\ IdleFrom /\ IdleOverlaps /\ IdleInc /\ IdleExport

Next == UnaffectedToOsvRanges

Spec == Init /\ [][Next]_vars

(***************************************************************************)
(* impl From<semver::VersionReq> for UnaffectedRange.  A comparator has an *)
(* operator, a major number, an optional minor and patch number (<<>> for  *)
(* None) and a pre-release.                                                *)
(***************************************************************************)
\* semver::Op
Ops == {"Exact", "Greater", "GreaterEq", "Less", "LessEq", "Tilde", "Caret", "Wildcard"}

\* line 140: the most comparators of a supported requirement
MaxComparators == 2

Comparator(op, major, minor, patch, pre) ==
    [op |-> op, major |-> major, minor |-> minor, patch |-> patch, pre |-> pre]

\* fn comp_to_ver
comp_to_ver(c) ==
    Version(c.major,
            IF c.minor = <<>> THEN 0 ELSE c.minor[1],
            IF c.patch = <<>> THEN 0 ELSE c.patch[1],
            c.pre,
            <<>>)

\* the outcome of one iteration of the loop over the comparators
Built(r) == [panic |-> "none", range |-> r]

Failed(msg) == [panic |-> msg, range |-> DefaultRange]

\* a faulty iteration in which a second upper bound replaces the first
FromComparatorOverwriting(r, c) ==
    IF c.op = "Exact" THEN Failed("todo")
    ELSE IF c.op = "Caret" THEN Failed("caret")
    ELSE IF c.op = "Greater"
    THEN (IF r.start = Unbounded THEN Built([r EXCEPT !.start = Exclusive(comp_to_ver(c))])
          ELSE Failed("more than one lower bound"))
    ELSE IF c.op = "GreaterEq"
    THEN (IF r.start = Unbounded THEN Built([r EXCEPT !.start = Inclusive(comp_to_ver(c))])
          ELSE Failed("more than one lower bound"))
    ELSE IF c.op = "Less" THEN Built([r EXCEPT !.end = Exclusive(comp_to_ver(c))])
    ELSE IF c.op = "LessEq" THEN Built([r EXCEPT !.end = Inclusive(comp_to_ver(c))])
    ELSE Failed("todo")

\* lines 145-177: the match on comparator.op
FromComparator(r, c) ==
    IF c.op = "Exact" THEN Failed("todo")
    ELSE IF c.op = "Caret" THEN Failed("caret")
    ELSE IF c.op = "Greater"
    THEN (IF r.start = Unbounded THEN Built([r EXCEPT !.start = Exclusive(comp_to_ver(c))])
          ELSE Failed("more than one lower bound"))
    ELSE IF c.op = "GreaterEq"
    THEN (IF r.start = Unbounded THEN Built([r EXCEPT !.start = Inclusive(comp_to_ver(c))])
          ELSE Failed("more than one lower bound"))
    ELSE IF c.op = "Less"
    THEN (IF r.end = Unbounded THEN Built([r EXCEPT !.end = Exclusive(comp_to_ver(c))])
          ELSE Failed("more than one upper bound"))
    ELSE IF c.op = "LessEq"
    THEN (IF r.end = Unbounded THEN Built([r EXCEPT !.end = Inclusive(comp_to_ver(c))])
          ELSE Failed("more than one upper bound"))
    ELSE Failed("todo")

\* lines 139-143: at most two comparators, then the default range
FromBegin ==
    /\ pc = "from"
    /\ IF Len(input) <= MaxComparators
       THEN pc' = "from_loop" /\ err' = err
       ELSE Panic("too many comparators")
    /\ range' = DefaultRange
    /\ k' = 0
    /\ UNCHANGED <<input, rangeVars, overlapsVars, incVars, exportVars>>

\* lines 144-178: one iteration of the loop
FromLoop ==
    /\ pc = "from_loop"
    /\ k < Len(input)
    /\ LET step == FromComparator(range, input[k + 1])
       IN IF step.panic = "none"
          THEN range' = step.range /\ k' = k + 1 /\ UNCHANGED <<pc, err>>
          ELSE Panic(step.panic) /\ UNCHANGED <<range, k>>
    /\ UNCHANGED <<input, rangeVars, overlapsVars, incVars, exportVars>>

\* lines 179-180: the result is valid, and is returned
FromEnd ==
    /\ pc = "from_loop"
    /\ k = Len(input)
    /\ IF is_valid(range)
       THEN pc' = "from_done" /\ err' = err
       ELSE Panic("invalid range")
    /\ UNCHANGED <<fromVars, rangeVars, overlapsVars, incVars, exportVars>>

RECURSIVE FromLoopAll(_, _)
\* the loop of lines 144-178 run to its end on the comparators cs
FromLoopAll(r, cs) ==
    IF cs = <<>> THEN Built(r)
    ELSE LET step == FromComparator(r, Head(cs))
         IN IF step.panic = "none" THEN FromLoopAll(step.range, Tail(cs)) ELSE step

\* lines 138-181: the whole conversion, req.into()
FromVersionReq(cs) ==
    IF Len(cs) > MaxComparators THEN Failed("too many comparators")
    ELSE LET built == FromLoopAll(DefaultRange, cs)
         IN IF built.panic # "none" THEN built
            ELSE IF is_valid(built.range) THEN built
            ELSE Failed("invalid range")

\* the comparators of the requirements: "0", "0.0", "0.0.p", "0.0.p-0"
CompVersions ==
    {<<<<>>, <<>>, <<>>>>, <<<<0>>, <<>>, <<>>>>}
    \cup {<<<<0>>, <<p>>, pre>> : p \in 0..MaxCompPatch, pre \in {<<>>, <<Num(0)>>}}

ComparatorsWith(ops) == {Comparator(op, 0, cv[1], cv[2], cv[3]) : op \in ops, cv \in CompVersions}

InitFrom ==
    /\ pc = "from"
    /\ err = "none"
    /\ \E n \in 0..(MaxComparators + 1) : input \in [1..n -> ComparatorsWith(Ops)]
    /\ k = 0
    /\ range = DefaultRange
    /\ IdleRange /\ IdleOverlaps /\ IdleInc /\ IdleExport

NextFrom == FromBegin \/ FromLoop \/ FromEnd

SpecFrom == InitFrom /\ [][NextFrom]_vars

(***************************************************************************)
(* SpecIncrement: increment called on a version.                           *)
(***************************************************************************)
\* lines 283-299
Increment ==
    /\ pc = "increment"
    /\ IF increment(incArg) = <<>>
       THEN Panic("increment todo") /\ incRet' = incRet
       ELSE pc' = "increment_done" /\ err' = err /\ incRet' = increment(incArg)
    /\ UNCHANGED <<incArg, rangeVars, fromVars, overlapsVars, exportVars>>

Prereleases == {<<>>, <<Num(0)>>, <<Num(1)>>, <<Alpha(0)>>, <<Num(0), Num(0)>>}

Builds == {<<>>, <<Tok("id", Alpha(0))>>}

InitIncrement ==
    /\ pc = "increment"
    /\ err = "none"
    /\ incArg \in {Version(major, minor, patch, pre, build) :
                      major \in 0..MaxField, minor \in 0..MaxField, patch \in 0..MaxPatch,
                      pre \in Prereleases, build \in Builds}
    /\ incRet = <<>>
    /\ IdleRange /\ IdleFrom /\ IdleOverlaps /\ IdleExport

NextIncrement == Increment

SpecIncrement == InitIncrement /\ [][NextIncrement]_vars

(***************************************************************************)
(* SpecOverlaps: UnaffectedRange::overlaps called on two ranges.           *)
(***************************************************************************)
\* lines 77-107: both ranges are valid, then the comparison of the bounds
Overlaps ==
    /\ pc = "overlaps"
    /\ IF is_valid(selfRange) /\ is_valid(otherRange)
       THEN /\ pc' = "overlaps_done" /\ err' = err
            /\ overlapsRet' = <<overlaps(selfRange, otherRange)>>
       ELSE Panic("invalid range") /\ overlapsRet' = overlapsRet
    /\ UNCHANGED <<selfRange, otherRange, rangeVars, fromVars, incVars, exportVars>>

\* the release 0.0.p and its lowest pre-release 0.0.p-0
BoundVersions == {Version(0, 0, p, pre, <<>>) : p \in 0..MaxPatch, pre \in {<<>>, <<Num(0)>>}}

InitOverlaps ==
    /\ pc = "overlaps"
    /\ err = "none"
    /\ selfRange \in RangesOver(BoundVersions)
    /\ otherRange \in RangesOver(BoundVersions)
    /\ overlapsRet = <<>>
    /\ IdleRange /\ IdleFrom /\ IdleInc /\ IdleExport

NextOverlaps == Overlaps

SpecOverlaps == InitOverlaps /\ [][NextOverlaps]_vars

(***************************************************************************)
(* SpecAdvisory: ranges_for_advisory, from the requirements of an advisory *)
(* to the OSV ranges.                                                      *)
(***************************************************************************)
\* the requirements of the advisories: up to two comparators with >, >=, <, <=
AdvisoryReqs ==
    UNION {[1..n -> ComparatorsWith({"Greater", "GreaterEq", "Less", "LessEq"})] :
              n \in 0..MaxComparators}

HasPrerelease(req) == \E j \in 1..Len(req) : req[j].pre # <<>>

\* lines 19 and 22: unaffected.push(req.into())
PushInto(req) ==
    LET converted == FromVersionReq(req)
    IN /\ IF converted.panic = "none"
          THEN unaffected' = Append(unaffected, converted.range) /\ UNCHANGED <<pc, err>>
          ELSE Panic(converted.panic) /\ unaffected' = unaffected
       /\ prerelease' = (prerelease \/ HasPrerelease(req))
       /\ UNCHANGED <<sorted, result, w, fromVars, overlapsVars, incVars, exportVars>>

\* lines 18-20: one iteration of the loop over advisory.versions.unaffected
PushUnaffected ==
    /\ pc = "collect_unaffected"
    /\ Len(unaffected) < MaxReqs
    /\ \E req \in AdvisoryReqs : PushInto(req)

\* line 20: the first loop ends
EndUnaffected ==
    /\ pc = "collect_unaffected"
    /\ pc' = "collect_patched"
    /\ UNCHANGED <<err, rangeVars, fromVars, overlapsVars, incVars, exportVars>>

\* lines 21-23: one iteration of the loop over advisory.versions.patched
PushPatched ==
    /\ pc = "collect_patched"
    /\ Len(unaffected) < MaxReqs
    /\ \E req \in AdvisoryReqs : PushInto(req)

\* line 24: the call of unaffected_to_osv_ranges
CallUnaffectedToOsvRanges ==
    /\ pc = "collect_patched"
    /\ pc' = "validate"
    /\ UNCHANGED <<err, rangeVars, fromVars, overlapsVars, incVars, exportVars>>

InitAdvisory ==
    /\ pc = "collect_unaffected"
    /\ err = "none"
    /\ IdleRange /\ IdleFrom /\ IdleOverlaps /\ IdleInc /\ IdleExport

NextAdvisory ==
    \/ PushUnaffected
    \/ EndUnaffected
    \/ PushPatched
    \/ CallUnaffectedToOsvRanges
    \/ UnaffectedToOsvRanges

SpecAdvisory == InitAdvisory /\ [][NextAdvisory]_vars

(***************************************************************************)
(* SpecExport: OsvExporter::export_all over a collection of package        *)
(* directories.  An advisory is named by <<package, file>>; every call     *)
(* that can fail does so or not as the file system and git decide.         *)
(***************************************************************************)
Advisories == {<<p, a>> : p \in 1..MaxPkgs, a \in 1..MaxAdvs}

Current == <<pkg, adv>>

\* a `?` that returns the error from export_all
ReturnErr(id, step) ==
    /\ pc' = "export_returned"
    /\ err' = step
    /\ failures' = failures \cup {<<id, step>>}

\* line 71: Ok(())
ReturnOk == pc' = "export_returned" /\ err' = "none"

\* line 44: if let Ok(collection_entry) = fs::read_dir(&collection_path);
\* an Err is not returned, the function goes on to line 71
ReadCollection ==
    /\ pc = "read_collection"
    /\ \E ok \in BOOLEAN :
          IF ok
          THEN pc' = "dir_entry" /\ err' = err /\ failures' = failures
          ELSE ReturnOk /\ failures' = failures \cup {<<<<0, 0>>, "read_dir collection">>}
    /\ UNCHANGED <<layout, pkg, adv, files, exported, rangeVars, fromVars, overlapsVars, incVars>>

\* lines 45-46: the next entry of the collection, dir_entry?, and
\* fs::read_dir(dir_entry.path())?
NextPackage ==
    /\ pc = "dir_entry"
    /\ IF pkg = Len(layout)
       THEN ReturnOk /\ UNCHANGED <<pkg, adv, failures>>
       ELSE \E outcome \in {"ok", "dir_entry", "read_dir package"} :
               /\ pkg' = pkg + 1
               /\ adv' = 0
               /\ IF outcome = "ok"
                  THEN pc' = "advisory_entry" /\ err' = err /\ failures' = failures
                  ELSE ReturnErr(<<pkg + 1, 0>>, outcome)
    /\ UNCHANGED <<layout, files, exported, rangeVars, fromVars, overlapsVars, incVars>>

\* lines 46-51: the next entry of the package, advisory_entry?, and
\* Advisory::load_file(&advisory_path)?
LoadAdvisory ==
    /\ pc = "advisory_entry"
    /\ IF adv = layout[pkg]
       THEN pc' = "dir_entry" /\ UNCHANGED <<err, adv, failures>>
       ELSE \E outcome \in {"ok", "advisory_entry", "load_file"} :
               /\ adv' = adv + 1
               /\ IF outcome = "ok"
                  THEN pc' = "git_path" /\ err' = err /\ failures' = failures
                  ELSE ReturnErr(<<pkg, adv + 1>>, outcome)
    /\ UNCHANGED <<layout, pkg, files, exported, rangeVars, fromVars, overlapsVars, incVars>>

\* gitpath.rs lines 14-29, GitPath::new: "ok" or the error it returns
GitPathNew(hasRoot, headFound, tracked) ==
    IF hasRoot THEN "not a relative path"
    ELSE IF ~headFound THEN "git HEAD"
    ELSE IF ~tracked THEN "git get_path"
    ELSE "ok"

\* lines 57-58: the path relative to the repository, GitPath::new(..)?
ValidateGitPath ==
    /\ pc = "git_path"
    /\ \E headFound \in BOOLEAN, tracked \in BOOLEAN :
          LET outcome == GitPathNew(FALSE, headFound, tracked)
          IN IF outcome = "ok"
             THEN pc' = "from_rustsec" /\ err' = err /\ failures' = failures
             ELSE ReturnErr(Current, outcome)
    /\ UNCHANGED <<layout, pkg, adv, files, exported, rangeVars, fromVars, overlapsVars, incVars>>

\* line 59: OsvAdvisory::from_rustsec, which computes the ranges of the
\* advisory and panics when that computation does
FromRustsec ==
    /\ pc = "from_rustsec"
    /\ \E panics \in BOOLEAN :
          IF panics
          THEN Panic("range computation") /\ failures' = failures \cup {<<Current, "range computation">>}
          ELSE pc' = "create" /\ err' = err /\ failures' = failures
    /\ UNCHANGED <<layout, pkg, adv, files, exported, rangeVars, fromVars, overlapsVars, incVars>>

\* lines 62-64: fs::File::create(output_path)? leaves an empty file
CreateFile ==
    /\ pc = "create"
    /\ \E ok \in BOOLEAN :
          IF ok
          THEN /\ pc' = "write" /\ err' = err /\ failures' = failures
               /\ files' = [files EXCEPT ![Current] = "partial"]
          ELSE ReturnErr(Current, "create") /\ files' = files
    /\ UNCHANGED <<layout, pkg, adv, exported, rangeVars, fromVars, overlapsVars, incVars>>

\* lines 65-67: serde_json::to_writer_pretty into a BufWriter.  A write that
\* fails while serializing is returned; one that fails when the BufWriter
\* is dropped is ignored.
WriteJson ==
    /\ pc = "write"
    /\ \E outcome \in {"ok", "write", "flush on drop"} :
          IF outcome = "write"
          THEN ReturnErr(Current, "write") /\ UNCHANGED <<files, exported>>
          ELSE /\ pc' = "advisory_entry" /\ err' = err
               /\ exported' = exported \cup {Current}
               /\ IF outcome = "ok"
                  THEN files' = [files EXCEPT ![Current] = "complete"] /\ failures' = failures
                  ELSE files' = files /\ failures' = failures \cup {<<Current, "flush on drop">>}
    /\ UNCHANGED <<layout, pkg, adv, rangeVars, fromVars, overlapsVars, incVars>>

InitExport ==
    /\ pc = "read_collection"
    /\ err = "none"
    /\ \E n \in 0..MaxPkgs : layout \in [1..n -> 0..MaxAdvs]
    /\ pkg = 0
    /\ adv = 0
    /\ files = [id \in Advisories |-> "absent"]
    /\ failures = {}
    /\ exported = {}
    /\ IdleRange /\ IdleFrom /\ IdleOverlaps /\ IdleInc

NextExport ==
    \/ ReadCollection
    \/ NextPackage
    \/ LoadAdvisory
    \/ ValidateGitPath
    \/ FromRustsec
    \/ CreateFile
    \/ WriteJson

SpecExport == InitExport /\ [][NextExport]_vars

(***************************************************************************)
(* Properties of unaffected_to_osv_ranges, checked under Spec.             *)
(***************************************************************************)
\* semantic-versioning precedence: build metadata is ignored
Precedes(a, b) == VersionCmp([a EXCEPT !.build = <<>>], [b EXCEPT !.build = <<>>]) < 0

SamePrecedence(a, b) == ~Precedes(a, b) /\ ~Precedes(b, a)

\* the successor of a release version, as the specification states it
Successor(v) == Version(v.major, v.minor, v.patch + 1, <<Num(0)>>, <<>>)

\* the version x lies in the unaffected range r
InUnaffected(r, x) ==
    /\ \/ r.start.kind = "Unbounded"
       \/ r.start.kind = "Inclusive" /\ ~Precedes(x, r.start.ver[1])
       \/ r.start.kind = "Exclusive" /\ Precedes(r.start.ver[1], x)
    /\ \/ r.end.kind = "Unbounded"
       \/ r.end.kind = "Inclusive" /\ ~Precedes(r.end.ver[1], x)
       \/ r.end.kind = "Exclusive" /\ Precedes(x, r.end.ver[1])

\* the version x lies in the OSV range [start, end)
InOsv(o, x) ==
    /\ o.start = None \/ ~Precedes(x, o.start[1])
    /\ o.end = None \/ Precedes(x, o.end[1])

\* the versions the coverage is judged on: every release and the two lowest
\* pre-releases of each, one patch above the highest bound
Universe ==
    {Version(0, 0, p, pre, <<>>) : p \in 0..(MaxPatch + 2), pre \in {<<>>, <<Num(0)>>, <<Num(1)>>}}

\* no two ranges at different positions overlap
PairwiseDisjoint(list) ==
    \A a \in 1..Len(list) : \A b \in 1..Len(list) : a # b => ~overlaps(list[a], list[b])

OverlappingPair(list) ==
    \E a \in 1..Len(list) : \E b \in 1..Len(list) : a # b /\ overlaps(list[a], list[b])

Returned == pc = "done"

Panicked == pc = "panic"

\* C1: whenever unaffected_to_osv_ranges returns for a non-empty list of
\* valid, pairwise non-overlapping ranges, every version lies either in one
\* of the unaffected ranges and in no emitted range, or in exactly one
\* emitted range.
C1_ComplementTotality ==
    (Returned /\ Len(unaffected) > 0 /\ PairwiseDisjoint(unaffected)) =>
        \A x \in Universe :
            LET covering == {j \in 1..Len(result) : InOsv(result[j], x)}
            IN IF \E j \in 1..Len(unaffected) : InUnaffected(unaffected[j], x)
               THEN covering = {}
               ELSE Cardinality(covering) = 1

\* C2: a list with two overlapping ranges at different positions never gets
\* past the validation: the call panics and nothing is returned.
C2_OverlapIsFatal ==
    OverlappingPair(unaffected) =>
        /\ pc \in {"validate", "panic"}
        /\ pc = "panic" => err = "overlap"
        /\ result = <<>>

\* C2 witness: a list of three ranges whose only overlapping pair is the
\* first and the last was rejected.
C2_Witness ==
    /\ Panicked /\ err = "overlap"
    /\ Len(unaffected) = 3
    /\ overlaps(unaffected[3], unaffected[1])
    /\ ~overlaps(unaffected[1], unaffected[2])
    /\ ~overlaps(unaffected[2], unaffected[3])
    /\ ~overlaps(unaffected[2], unaffected[2])

\* C3: the validation panics only for an empty list, an invalid range or two
\* overlapping ranges at different positions.
C3_RejectsOnlyBadLists ==
    (Panicked /\ err \in {"invalid range", "empty", "overlap"}) =>
        \/ Len(unaffected) = 0
        \/ \E j \in 1..Len(unaffected) : ~is_valid(unaffected[j])
        \/ OverlappingPair(unaffected)

\* the emitted ranges that have both bounds
GapRanges == {result[j] : j \in {h \in 1..Len(result) : result[h].start # None /\ result[h].end # None}}

\* C4: for two ranges, the lower ending at Inclusive(a) and the higher
\* starting at Inclusive(b), the range emitted for the gap is
\* (Some(increment(a)), Some(b)).
C4_GapBetweenInclusiveBounds ==
    (/\ Returned
     /\ Len(unaffected) = 2
     /\ sorted[1].end.kind = "Inclusive"
     /\ sorted[2].start.kind = "Inclusive") =>
        GapRanges = {OsvRange(Some(Successor(sorted[1].end.ver[1])), Some(sorted[2].start.ver[1]))}

\* the result the claim C5 states for the single range r
SingleExpected(r) ==
    (IF r.start.kind = "Unbounded" THEN <<>>
     ELSE IF r.start.kind = "Inclusive" THEN <<OsvRange(None, Some(r.start.ver[1]))>>
     ELSE <<OsvRange(None, Some(Successor(r.start.ver[1])))>>)
    \o
    (IF r.end.kind = "Unbounded" THEN <<>>
     ELSE IF r.end.kind = "Exclusive" THEN <<OsvRange(Some(r.end.ver[1]), None)>>
     ELSE <<OsvRange(Some(Successor(r.end.ver[1])), None)>>)

\* C5: for a single valid range with release bounds the call returns the
\* head range iff start is bounded, then the tail range iff end is bounded,
\* and nothing else.
C5_SingleRange ==
    Len(unaffected) = 1 =>
        /\ ~Panicked
        /\ Returned => result = SingleExpected(unaffected[1])
        /\ Returned => (result = <<>> <=> unaffected[1] = DefaultRange)

\* C5 witness: a single range with an Exclusive start and an Inclusive end
\* was converted to a head and a tail.
C5_Witness ==
    /\ Returned
    /\ unaffected = <<UnaffectedRange(Exclusive(Release(0, 0, 0)), Inclusive(Release(0, 0, 1)))>>
    /\ Len(result) = 2

(***************************************************************************)
(* Properties of the requirement normalizer, checked under SpecFrom.       *)
(***************************************************************************)
LowerOps == {"Greater", "GreaterEq"}

UpperOps == {"Less", "LessEq"}

\* the version a clause stands for: missing minor and patch are zero
ClauseVersion(c) ==
    Version(c.major,
            IF c.minor = <<>> THEN 0 ELSE c.minor[1],
            IF c.patch = <<>> THEN 0 ELSE c.patch[1],
            c.pre, <<>>)

ClauseBound(c) ==
    IF c.op \in {"Greater", "Less"} THEN Exclusive(ClauseVersion(c)) ELSE Inclusive(ClauseVersion(c))

\* the range the clauses cs stand for, whatever their order
ClauseRange(cs) ==
    LET lower == {j \in 1..Len(cs) : cs[j].op \in LowerOps}
        upper == {j \in 1..Len(cs) : cs[j].op \in UpperOps}
    IN UnaffectedRange(
           IF lower = {} THEN Unbounded ELSE ClauseBound(cs[CHOOSE j \in lower : TRUE]),
           IF upper = {} THEN Unbounded ELSE ClauseBound(cs[CHOOSE j \in upper : TRUE]))

\* validity as the data model states it
StatedValid(r) ==
    \/ r.start.kind = "Unbounded"
    \/ r.end.kind = "Unbounded"
    \/ Precedes(r.start.ver[1], r.end.ver[1])
    \/ /\ SamePrecedence(r.start.ver[1], r.end.ver[1])
       /\ r.start.kind = "Inclusive" \/ r.end.kind = "Inclusive"

\* the requirements the claim says are converted
Supported(cs) ==
    /\ Len(cs) <= 2
    /\ \A j \in 1..Len(cs) : cs[j].op \in LowerOps \cup UpperOps
    /\ Cardinality({j \in 1..Len(cs) : cs[j].op \in LowerOps}) <= 1
    /\ Cardinality({j \in 1..Len(cs) : cs[j].op \in UpperOps}) <= 1
    /\ StatedValid(ClauseRange(cs))

\* C6: the normalizer returns exactly for the supported requirements, and
\* then the range of their clauses; every other requirement ends in a panic.
C6_Normalizer ==
    /\ pc = "from_done" => (Supported(input) /\ range = ClauseRange(input))
    /\ Panicked => ~Supported(input)
    /\ pc \in {"from", "from_loop", "from_done", "panic"}

\* C6 witness: a requirement whose upper bound comes first was converted.
C6_Witness ==
    /\ pc = "from_done"
    /\ Len(input) = 2
    /\ input[1].op = "Less" /\ input[2].op = "GreaterEq"
    /\ range.start.kind = "Inclusive" /\ range.end.kind = "Exclusive"

(***************************************************************************)
(* Properties of increment, checked under SpecIncrement.                   *)
(***************************************************************************)
\* the versions a version between v and increment(v) is looked for in
IncrementUniverse ==
    {Version(major, minor, patch, pre, <<>>) :
        major \in 0..(MaxField + 1), minor \in 0..(MaxField + 1),
        patch \in 0..(MaxPatch + 2), pre \in Prereleases}

C8_IncrementNeverUnsupported == ~(Panicked /\ err = "increment todo")

\* C8 as amended: the pipeline reaches the todo!() of increment only for an
\* advisory one of whose requirement clauses carries a pre-release.
C8_UnsupportedOnlyWithPrerelease == (Panicked /\ err = "increment todo") => prerelease

\* C8 witness: an advisory of two requirements without pre-release was
\* converted, and increment was called for one of the emitted bounds.
C8_Witness ==
    /\ Returned
    /\ ~prerelease
    /\ Len(unaffected) = 2
    /\ \E j \in 1..Len(result) : result[j].end # None /\ result[j].end[1].pre = <<Num(0)>>

(***************************************************************************)
(* Properties of UnaffectedRange::overlaps, checked under SpecOverlaps.    *)
(***************************************************************************)
CommonVersion(a, b) == \E x \in Universe : InUnaffected(a, x) /\ InUnaffected(b, x)

\* the bounds at which a ends and b starts are at the same version
MeetAt(a, b) == a.end.ver # None /\ b.start.ver # None /\ a.end.ver = b.start.ver

BothInclusive(a, b) == a.end.kind = "Inclusive" /\ b.start.kind = "Inclusive"

\* C9 as stated: for valid ranges, overlaps is true exactly when a version
\* lies in both; ranges that meet at a version overlap only if both facing
\* bounds are Inclusive; the result is symmetric.
C9_OverlapsIffCommonVersion ==
    pc = "overlaps_done" =>
        /\ overlapsRet[1] <=> CommonVersion(selfRange, otherRange)
        /\ (overlapsRet[1] /\ MeetAt(selfRange, otherRange)) => BothInclusive(selfRange, otherRange)
        /\ (overlapsRet[1] /\ MeetAt(otherRange, selfRange)) => BothInclusive(otherRange, selfRange)
        /\ overlapsRet[1] = overlaps(otherRange, selfRange)

\* C9 as amended: for valid ranges, overlaps is true whenever a version lies
\* in both; ranges that meet at a version overlap only if both facing bounds
\* are Inclusive; the result is symmetric.
C9_CommonVersionOverlaps ==
    pc = "overlaps_done" =>
        /\ CommonVersion(selfRange, otherRange) => overlapsRet[1]
        /\ (overlapsRet[1] /\ MeetAt(selfRange, otherRange)) => BothInclusive(selfRange, otherRange)
        /\ (overlapsRet[1] /\ MeetAt(otherRange, selfRange)) => BothInclusive(otherRange, selfRange)
        /\ overlapsRet[1] = overlaps(otherRange, selfRange)

\* C9 witness: two ranges that meet at a version, both bounds Inclusive,
\* were found to overlap, and the version lies in both.
C9_Witness ==
    /\ pc = "overlaps_done"
    /\ overlapsRet = <<TRUE>>
    /\ selfRange.end = Inclusive(Release(0, 0, 0))
    /\ otherRange.start = Inclusive(Release(0, 0, 0))
    /\ InUnaffected(selfRange, Release(0, 0, 0))
    /\ InUnaffected(otherRange, Release(0, 0, 0))

(***************************************************************************)
(* Order of the input list, checked under Spec.                            *)
(***************************************************************************)
Permuted(list, f) == [j \in 1..Len(list) |-> list[f[j]]]

\* the outcome of the run at its end
RunOutcome == IF Panicked THEN Fatal ELSE Emitted(result)

\* C12: when the run on a list has ended, by a panic or by returning, a call
\* on any permutation of that list has the same outcome: a panic, or the
\* same emitted list.
C12_OrderIndependent ==
    (Returned \/ Panicked) =>
        \A f \in Permutations(1..Len(unaffected)) :
            unaffected_to_osv_ranges(Permuted(unaffected, f)) = RunOutcome

\* the end of r0 is at or before the start of r1
EndAtOrBeforeStart(r0, r1) ==
    /\ r0.end.kind # "Unbounded"
    /\ r1.start.kind # "Unbounded"
    /\ ~Precedes(r1.start.ver[1], r0.end.ver[1])

\* C13: a list of valid ranges that passed the overlap validation never
\* fails the assertion v1 != v2 of the sort comparator, and once sorted by
\* start each range ends at or before the start of the next one, Unbounded
\* being only the start of the first range or the end of the last.
C13_SortedByStartIsSortedByEnd ==
    /\ ~(Panicked /\ err = "equal starts")
    /\ pc \in {"head", "windows", "done"} =>
          \A j \in 1..(Len(sorted) - 1) : EndAtOrBeforeStart(sorted[j], sorted[j + 1])

\* C14: every range the call returns with both bounds present has its start
\* at or before its end in semantic-versioning precedence.
C14_EmittedRangesWellFormed ==
    Returned => \A g \in GapRanges : ~Precedes(g.end[1], g.start[1])

(***************************************************************************)
(* Properties of OsvExporter::export_all, checked under SpecExport.        *)
(***************************************************************************)
\* the advisories whose processing failed
FailedAdvisories == {f[1] : f \in failures} \cap Advisories

\* C10: at every point of the run an advisory whose processing failed
\* (load, path validation, range computation, file creation, write) has no
\* file, complete or partial, in the output directory.
C10_NoFileForFailedAdvisory ==
    \A id \in FailedAdvisories : files[id] = "absent"

\* the advisories under the collection directory
CollectionAdvisories ==
    {id \in Advisories : id[1] <= Len(layout) /\ id[2] <= layout[id[1]]}

\* C11: export_all never swallows a failure: when it returns Ok no step has
\* failed (reading the collection or a package directory, loading an
\* advisory, validating its git path, creating or writing its file) and
\* every advisory under the collection directory was exported with a
\* complete file.
C11_OkOnlyWhenAllExported ==
    (pc = "export_returned" /\ err = "none") =>
        /\ failures = {}
        /\ \A id \in CollectionAdvisories : id \in exported /\ files[id] = "complete"

====
